---------------------------- MODULE Spec2Model ----------------------------
(***************************************************************************)
(* Model of the literature screening pipeline of src/筛选文献.py:           *)
(* the start-button handler, the per-document loop, process_document and   *)
(* the three graph nodes PDF_Loader -> Filter -> Monitor.                  *)
(*                                                                         *)
(* Texts are sequences of one-character strings.  The fixed wording of the *)
(* two prompt templates is carried by marker tokens ("<F1>", "<M1>", ...)  *)
(* that stand for the literal template text between the interpolated       *)
(* fields; the truncation note that follows the preview in the Filter      *)
(* prompt is kept as ordinary characters, because str.replace searches    *)
(* for it in the whole prompt, criteria included.                          *)
(*                                                                         *)
(* The two slice lengths of the source (30000 and 5000 characters) are     *)
(* scaled down to PreviewLimit and ExcerptLimit so that texts shorter      *)
(* than, equal to and longer than each limit are all enumerated.           *)
(***************************************************************************)
EXTENDS Naturals, Sequences, FiniteSets

VARIABLES
    api_key,          \* sidebar text input (line 146)
    uploaded_files,   \* the uploaded PDF files (line 179)
    criteria_input,   \* the criteria text area (line 175)
    pc,               \* position of the button handler
    idx,              \* 1-based position of the per-document loop (line 195)
    node,             \* graph node the running workflow executes next
    state,            \* LiteratureState of the current / last run
    executed,         \* history: nodes executed by the current run, in order
    calls,            \* history: every llm.invoke made, in order
    ui                \* what the handler has rendered, in order

vars == <<api_key, uploaded_files, criteria_input, pc, idx, node, state,
          executed, calls, ui>>

----------------------------------------------------------------------------
(* Bounds of the model *)

MaxFiles == 2

MaxPageLen == 4

\* stands for the 30000 of raw_content[:30000] (line 77), scaled down
PreviewLimit == 3

\* stands for the 5000 of raw_content[:5000] (line 101), scaled down
ExcerptLimit == 2

----------------------------------------------------------------------------
(* Texts *)

NL == "\n"

Whitespace == {" ", "\t", "\n", "\r"}

Char == {"a", " ", NL, "."}

Texts(n) == UNION {[1..k -> Char] : k \in 0..n}

Min(a, b) == IF a <= b THEN a ELSE b

\* s[:n]
Take(s, n) == SubSeq(s, 1, Min(n, Len(s)))

\* sub in s
Contains(s, sub) ==
    \E i \in 0..(Len(s) - Len(sub)) : SubSeq(s, i + 1, i + Len(sub)) = sub

IsPrefix(p, s) == Len(p) <= Len(s) /\ SubSeq(s, 1, Len(p)) = p

\* text.split('\n')
RECURSIVE Split(_)
Split(s) ==
    IF \A i \in 1..Len(s) : s[i] # NL
    THEN <<s>>
    ELSE LET i == CHOOSE j \in 1..Len(s) :
                      s[j] = NL /\ \A k \in 1..(j - 1) : s[k] # NL
         IN  <<SubSeq(s, 1, i - 1)>> \o Split(SubSeq(s, i + 1, Len(s)))

\* "\n".join(lines)
RECURSIVE Join(_)
Join(lines) ==
    IF lines = <<>> THEN <<>>
    ELSE IF Len(lines) = 1 THEN lines[1]
    ELSE lines[1] \o <<NL>> \o Join(Tail(lines))

\* the truth value of line.strip()
StripNonEmpty(line) == \E i \in 1..Len(line) : line[i] \notin Whitespace

\* the truth value of line
NonEmpty(line) == line # <<>>

\* s.replace(old, new): leftmost, non-overlapping occurrences
RECURSIVE Replace(_, _, _)
Replace(s, old, new) ==
    IF old = <<>>
    THEN IF s = <<>> THEN new
         ELSE new \o <<s[1]>> \o Replace(Tail(s), old, new)
    ELSE IF Len(s) < Len(old) THEN s
    ELSE IF SubSeq(s, 1, Len(old)) = old
         THEN new \o Replace(SubSeq(s, Len(old) + 1, Len(s)), old, new)
         ELSE <<s[1]>> \o Replace(Tail(s), old, new)

----------------------------------------------------------------------------
(* PDF files and the Document Extractor *)

\* f"Error reading PDF: {e}"
ErrorText == <<"E", ":", "e">>

RECURSIVE ConcatPages(_)
ConcatPages(pages) ==
    IF pages = <<>> THEN <<>>
    ELSE (IF pages[1] # <<>> THEN pages[1] \o <<NL>> ELSE <<>>)
         \o ConcatPages(Tail(pages))

extract_text_from_pdf_EmptyOnError(f) ==
    IF f.readable THEN ConcatPages(f.pages) ELSE <<>>

extract_text_from_pdf(f) ==
    IF f.readable THEN ConcatPages(f.pages) ELSE ErrorText

Pdf(n, r, p) == [name |-> n, readable |-> r, pages |-> p]

CorruptPdf == Pdf("corrupt.pdf", FALSE, <<>>)

\* the files of the batch specification
SmallPdfs ==
    { CorruptPdf,
      Pdf("blank.pdf", TRUE, << <<" ">> >>),
      Pdf("paper.pdf", TRUE, << <<"a", ".">>, <<>>, <<NL, "b">> >>) }

\* the files of the single-document specification: every one-page text
BroadPdfs ==
    {CorruptPdf} \cup {Pdf("doc.pdf", TRUE, <<t>>) : t \in Texts(MaxPageLen)}

SeqsUpTo(S, n) == UNION {[1..k -> S] : k \in 0..n}

default_criteria == <<"c">>

\* the truncation note " ... (内容过长已截断，请基于全量理解)"
TruncNote == <<" ", ".">>

\* criteria of the single-document specification, two of them quoting the
\* truncation note
CriteriaSet ==
    { default_criteria, <<>>, TruncNote, <<"a">> \o TruncNote }

\* contents a model response may have
Responses == { <<>>, <<"x">> }

----------------------------------------------------------------------------
(* LiteratureState and the three graph nodes *)

\* the initial inputs of app.invoke
Inputs(f, criteria) ==
    [ file_name          |-> f.name,
      raw_content        |-> extract_text_from_pdf(f),
      screening_criteria |-> criteria,
      extracted_data     |-> <<>>,
      quality_report     |-> <<>> ]

\* the state before any run: no LiteratureState exists yet
NoState ==
    [ file_name          |-> "",
      raw_content        |-> <<>>,
      screening_criteria |-> <<>>,
      extracted_data     |-> <<>>,
      quality_report     |-> <<>> ]

\* a node's partial update merged into the state
Merge(st, upd) ==
    [k \in DOMAIN st |-> IF k \in DOMAIN upd THEN upd[k] ELSE st[k]]

CleanText_KeepWhitespaceLines(text) == Join(SelectSeq(Split(text), NonEmpty))

\* "\n".join([line for line in text.split('\n') if line.strip()])
CleanText(text) == Join(SelectSeq(Split(text), StripNonEmpty))

pdf_loader_agent(st) == [raw_content |-> CleanText(st.raw_content)]

\* the preview with its truncation note, as interpolated into the prompt and
\* as searched for by replace
Preview(st) == Take(st.raw_content, PreviewLimit) \o TruncNote

\* prompt of filter_agent
FilterPrompt(st) ==
    <<"<F1>">> \o st.screening_criteria \o <<"<F2>">> \o Preview(st)
               \o <<"<F3>">>

FilterMessage_NoReplace(st) == FilterPrompt(st)

\* real_msg of filter_agent
FilterMessage(st) == Replace(FilterPrompt(st), Preview(st), st.raw_content)

filter_agent_WrongKey(st, response) == [quality_report |-> response]

\* the update filter_agent returns when llm.invoke returns response
filter_agent(st, response) == [extracted_data |-> response]

Excerpt_Full(st) == st.raw_content

\* state["raw_content"][:5000]
Excerpt(st) == Take(st.raw_content, ExcerptLimit)

\* prompt of monitor_agent
MonitorMessage(st) ==
    <<"<M1>">> \o st.screening_criteria \o <<"<M2>">> \o st.extracted_data
               \o <<"<M3>">> \o Excerpt(st) \o <<"<M4>">>

\* the update monitor_agent returns when llm.invoke returns response
monitor_agent(st, response) == [quality_report |-> response]

Edges_SkipMonitor ==
    { <<"START", "PDF_Loader">>, <<"PDF_Loader", "Filter">>,
      <<"Filter", "END">>, <<"Monitor", "END">> }

\* workflow.add_edge(...)
Edges ==
    { <<"START", "PDF_Loader">>, <<"PDF_Loader", "Filter">>,
      <<"Filter", "Monitor">>, <<"Monitor", "END">> }

\* the node the compiled graph runs after n
Successor(n) == CHOOSE m \in {e[2] : e \in Edges} : <<n, m>> \in Edges

Call(step, msg, ok, response) ==
    [doc |-> idx, step |-> step, msg |-> msg, ok |-> ok, response |-> response]

Shown(kind, doc, extracted, report) ==
    [kind |-> kind, doc |-> doc, extracted |-> extracted, report |-> report]

----------------------------------------------------------------------------
(* The start-button handler *)

N == Len(uploaded_files)

StartOutcome_FilesFirst(key, files) ==
    IF files = <<>> THEN "warning"
    ELSE IF key = "" THEN "error"
    ELSE "run"

\* if not api_key / elif not uploaded_files / else
StartOutcome(key, files) ==
    IF key = "" THEN "error"
    ELSE IF files = <<>> THEN "warning"
    ELSE "run"

InitWith(batches, criteria) ==
    /\ api_key \in {"", "sk"}
    /\ uploaded_files \in batches
    /\ criteria_input \in criteria
    /\ pc = "idle"
    /\ idx = 0
    /\ node = "START"
    /\ state = NoState
    /\ executed = <<>>
    /\ calls = <<>>
    /\ ui = <<>>

\* batches of up to MaxFiles files
Init == InitWith(SeqsUpTo(SmallPdfs, MaxFiles), {default_criteria})

\* at most one file, of any text up to MaxPageLen, under any criteria
InitDoc == InitWith({<<>>} \cup {<<f>> : f \in BroadPdfs}, CriteriaSet)

\* st.error("请先在左侧侧边栏输入 API Key！")
StartNoKey ==
    /\ pc = "idle"
    /\ StartOutcome(api_key, uploaded_files) = "error"
    /\ ui' = Append(ui, Shown("missing_key_error", 0, <<>>, <<>>))
    /\ pc' = "rejected"
    /\ UNCHANGED <<api_key, uploaded_files, criteria_input, idx, node, state,
                   executed, calls>>

\* st.warning("请至少上传一个 PDF 文件。")
StartNoFiles ==
    /\ pc = "idle"
    /\ StartOutcome(api_key, uploaded_files) = "warning"
    /\ ui' = Append(ui, Shown("missing_files_warning", 0, <<>>, <<>>))
    /\ pc' = "rejected"
    /\ UNCHANGED <<api_key, uploaded_files, criteria_input, idx, node, state,
                   executed, calls>>

\* the else branch up to the head of the for loop
StartBatch ==
    /\ pc = "idle"
    /\ StartOutcome(api_key, uploaded_files) = "run"
    /\ pc' = "loop"
    /\ idx' = 1
    /\ UNCHANGED <<api_key, uploaded_files, criteria_input, node, state,
                   executed, calls, ui>>

\* process_document up to app.invoke(inputs) entering the first node
BeginDocument ==
    /\ pc = "loop"
    /\ idx <= N
    /\ state' = Inputs(uploaded_files[idx], criteria_input)
    /\ node' = Successor("START")
    /\ executed' = <<>>
    /\ pc' = "run"
    /\ UNCHANGED <<api_key, uploaded_files, criteria_input, idx, calls, ui>>

\* node PDF_Loader
PdfLoader ==
    /\ pc = "run"
    /\ node = "PDF_Loader"
    /\ state' = Merge(state, pdf_loader_agent(state))
    /\ executed' = Append(executed, node)
    /\ node' = Successor(node)
    /\ UNCHANGED <<api_key, uploaded_files, criteria_input, pc, idx, calls, ui>>

\* the except branch of the loop body, then the progress update
HandleFailure ==
    /\ ui' = Append(ui, Shown("failure", idx, <<>>, <<>>))
    /\ idx' = idx + 1
    /\ pc' = "loop"

\* node Filter, llm.invoke returns
FilterOk ==
    /\ pc = "run"
    /\ node = "Filter"
    /\ \E response \in Responses :
          /\ calls' = Append(calls, Call("Filter", FilterMessage(state), TRUE,
                                         response))
          /\ state' = Merge(state, filter_agent(state, response))
    /\ executed' = Append(executed, node)
    /\ node' = Successor(node)
    /\ UNCHANGED <<api_key, uploaded_files, criteria_input, pc, idx, ui>>

FilterFail_Abort ==
    /\ pc = "run"
    /\ node = "Filter"
    /\ calls' = Append(calls, Call("Filter", FilterMessage(state), FALSE, <<>>))
    /\ ui' = Append(ui, Shown("failure", idx, <<>>, <<>>))
    /\ pc' = "done"
    /\ UNCHANGED <<api_key, uploaded_files, criteria_input, idx, node, state,
                   executed>>

\* node Filter, llm.invoke raises
FilterFail ==
    /\ pc = "run"
    /\ node = "Filter"
    /\ calls' = Append(calls, Call("Filter", FilterMessage(state), FALSE, <<>>))
    /\ HandleFailure
    /\ UNCHANGED <<api_key, uploaded_files, criteria_input, node, state,
                   executed>>

\* node Monitor, llm.invoke returns
MonitorOk ==
    /\ pc = "run"
    /\ node = "Monitor"
    /\ \E response \in Responses :
          /\ calls' = Append(calls, Call("Monitor", MonitorMessage(state), TRUE,
                                         response))
          /\ state' = Merge(state, monitor_agent(state, response))
    /\ executed' = Append(executed, node)
    /\ node' = Successor(node)
    /\ UNCHANGED <<api_key, uploaded_files, criteria_input, pc, idx, ui>>

MonitorFail_Retry ==
    /\ pc = "run"
    /\ node = "Monitor"
    /\ Len(calls) < 3 * N
    /\ calls' = Append(calls, Call("Monitor", MonitorMessage(state), FALSE, <<>>))
    /\ UNCHANGED <<api_key, uploaded_files, criteria_input, pc, idx, node,
                   state, executed, ui>>

MonitorFail_Swallow ==
    /\ pc = "run"
    /\ node = "Monitor"
    /\ calls' = Append(calls, Call("Monitor", MonitorMessage(state), FALSE, <<>>))
    /\ executed' = Append(executed, node)
    /\ node' = Successor(node)
    /\ UNCHANGED <<api_key, uploaded_files, criteria_input, pc, idx, state, ui>>

\* node Monitor, llm.invoke raises
MonitorFail ==
    /\ pc = "run"
    /\ node = "Monitor"
    /\ calls' = Append(calls, Call("Monitor", MonitorMessage(state), FALSE, <<>>))
    /\ HandleFailure
    /\ UNCHANGED <<api_key, uploaded_files, criteria_input, node, state,
                   executed>>

\* app.invoke returns the final state; both columns are rendered; progress
FinishDocument ==
    /\ pc = "run"
    /\ node = "END"
    /\ ui' = Append(ui, Shown("result", idx, state.extracted_data,
                              state.quality_report))
    /\ idx' = idx + 1
    /\ pc' = "loop"
    /\ UNCHANGED <<api_key, uploaded_files, criteria_input, node, state,
                   executed, calls>>

\* the loop is exhausted: st.success("✅ 所有文献处理完毕！")
FinishBatch ==
    /\ pc = "loop"
    /\ idx > N
    /\ ui' = Append(ui, Shown("success", 0, <<>>, <<>>))
    /\ pc' = "done"
    /\ UNCHANGED <<api_key, uploaded_files, criteria_input, idx, node, state,
                   executed, calls>>

Next ==
    \/ StartNoKey
    \/ StartNoFiles
    \/ StartBatch
    \/ BeginDocument
    \/ PdfLoader
    \/ FilterOk
    \/ FilterFail
    \/ MonitorOk
    \/ MonitorFail
    \/ FinishDocument
    \/ FinishBatch

Spec == Init /\ [][Next]_vars

SpecDoc == InitDoc /\ [][Next]_vars

----------------------------------------------------------------------------
(* Vocabulary of the properties *)

Range(s) == {s[k] : k \in 1..Len(s)}

\* the llm.invoke calls made while processing document i, in order
CallsOf(i) == LET OfDoc(c) == c.doc = i IN SelectSeq(calls, OfDoc)

\* what the handler rendered for document i, in order
ShownFor(i) == LET OfDoc(e) == e.doc = i IN SelectSeq(ui, OfDoc)

\* document i has left the loop body
Finished(i) == ShownFor(i) # <<>>

\* the text the Document Extractor produced for document i
RawText(i) == extract_text_from_pdf(uploaded_files[i])

\* the lines of a text; the empty text has none
LinesOf(t) == IF t = <<>> THEN <<>> ELSE Split(t)

BlankLine(l) == \A k \in 1..Len(l) : l[k] \in Whitespace

NonBlankLine(l) == ~BlankLine(l)

\* the excerpt slot of a Monitor message: what lies between <M3> and <M4>
ExcerptOf(msg) ==
    LET i == CHOOSE k \in 1..Len(msg) : msg[k] = "<M3>"
        j == CHOOSE k \in 1..Len(msg) : msg[k] = "<M4>"
    IN  SubSeq(msg, i + 1, j - 1)

Chain == <<"PDF_Loader", "Filter", "Monitor">>

----------------------------------------------------------------------------
(* C1 *)

\* C1 as stated: a batch of N documents started with a non-empty API key
\* ends with exactly 2*N model calls, whatever the outcome of each call.
C1_Original == pc = "done" => Len(calls) = 2 * N

\* C1, amended: every document that has left the loop got exactly one
\* Filter call, followed by exactly one Monitor call if and only if the
\* Filter call returned; the calls are logged in document order, and a
\* finished batch has made N + (number of Filter calls that returned) calls,
\* never more than 2*N.
C1_CallsPerDocument ==
    /\ \A i \in 1..N : Finished(i) =>
          LET cs == CallsOf(i) IN
          /\ Len(cs) \in {1, 2}
          /\ cs[1].step = "Filter"
          /\ Len(cs) = 2 <=> cs[1].ok
          /\ Len(cs) = 2 => cs[2].step = "Monitor"
    /\ \A k \in 1..(Len(calls) - 1) : calls[k].doc <= calls[k + 1].doc
    /\ pc = "done" =>
          /\ Len(calls) =
                N + Cardinality({i \in 1..N : CallsOf(i)[1].ok})
          /\ Len(calls) <= 2 * N

\* a finished batch of two documents in which one Filter call failed
C1_Witness ==
    /\ pc = "done"
    /\ N = 2
    /\ Len(calls) = 3
    /\ \E k \in 1..3 : calls[k].step = "Filter" /\ ~calls[k].ok

----------------------------------------------------------------------------
(* C2 *)

FilterReturnedEmpty ==
    \E c \in Range(calls) :
        c.doc = idx /\ c.step = "Filter" /\ c.ok /\ c.response = <<>>

\* C2 as stated: during a run, extracted_data is never non-empty while
\* raw_content is empty, and quality_report is never non-empty while
\* extracted_data is empty unless the Filter response was the empty string;
\* for every document, empty and blank ones included.
C2_Original ==
    pc = "run" =>
       /\ state.extracted_data # <<>> => state.raw_content # <<>>
       /\ state.quality_report # <<>> =>
             (state.extracted_data # <<>> \/ FilterReturnedEmpty)

\* C2, amended: during a run, extracted_data is non-empty only after the
\* Cleaning step has written raw_content, and then raw_content is empty only
\* if the document's text has no non-blank line; quality_report is non-empty
\* only after the Filter step has written extracted_data, and then
\* extracted_data is empty only if the Filter response was the empty string.
C2_FieldOrder ==
    pc = "run" =>
       /\ state.extracted_data # <<>> =>
             /\ "PDF_Loader" \in Range(executed)
             /\ state.raw_content = <<>> => BlankLine(RawText(idx))
       /\ state.quality_report # <<>> =>
             /\ "Filter" \in Range(executed)
             /\ state.extracted_data = <<>> => FilterReturnedEmpty

\* a run on a blank document whose two model calls returned text
C2_Witness ==
    /\ pc = "run"
    /\ state.raw_content = <<>>
    /\ state.extracted_data # <<>>
    /\ state.quality_report # <<>>

----------------------------------------------------------------------------
(* C3 *)

\* C3: the message of every Filter call contains the complete cleaned text
\* of its document, whether that text is shorter than, as long as or longer
\* than the preview limit, and whatever the criteria.
C3_FullTextSent ==
    \A c \in Range(calls) :
        c.step = "Filter" => Contains(c.msg, CleanText(RawText(c.doc)))

\* a Filter call on a text longer than the preview, under criteria that
\* quote the truncation note
C3_Witness ==
    \E c \in Range(calls) :
        /\ c.step = "Filter"
        /\ Len(CleanText(RawText(c.doc))) > PreviewLimit
        /\ Contains(criteria_input, TruncNote)

----------------------------------------------------------------------------
(* C4 *)

\* C4 as stated: the excerpt of every Monitor message is a prefix of the
\* text the Document Extractor produced, at most ExcerptLimit long.
C4_Original ==
    \A c \in Range(calls) :
        c.step = "Monitor" =>
           /\ IsPrefix(ExcerptOf(c.msg), RawText(c.doc))
           /\ Len(ExcerptOf(c.msg)) <= ExcerptLimit

\* C4, amended: the excerpt of every Monitor message is the prefix of the
\* document's cleaned text (raw_content as the Cleaning step left it) of
\* length min(ExcerptLimit, length of the cleaned text), and the message
\* holds nothing else than the criteria, the Filter response and that
\* excerpt.
C4_ExcerptOfCleanText ==
    \A c \in Range(calls) :
        c.step = "Monitor" =>
           LET ex == ExcerptOf(c.msg)
               clean == CleanText(RawText(c.doc))
           IN  /\ IsPrefix(ex, clean)
               /\ Len(ex) = Min(ExcerptLimit, Len(clean))
               /\ Len(ex) <= ExcerptLimit
               /\ c.msg = <<"<M1>">> \o criteria_input \o <<"<M2>">>
                             \o CallsOf(c.doc)[1].response \o <<"<M3>">>
                             \o ex \o <<"<M4>">>

\* a Monitor call on a document that starts with a blank line and whose
\* cleaned text is longer than the excerpt
C4_Witness ==
    \E c \in Range(calls) :
        /\ c.step = "Monitor"
        /\ Len(CleanText(RawText(c.doc))) > ExcerptLimit
        /\ RawText(c.doc)[1] = NL

----------------------------------------------------------------------------
(* C5 *)

\* C5: once the Cleaning step has run, raw_content has no blank line, and
\* its lines are the non-blank lines of the extractor's text, in the same
\* order; for the empty text and for a text of blank lines it has no line.
C5_CleanLines ==
    (pc = "run" /\ "PDF_Loader" \in Range(executed)) =>
       LET out == LinesOf(state.raw_content) IN
       /\ \A k \in 1..Len(out) : NonBlankLine(out[k])
       /\ out = SelectSeq(Split(RawText(idx)), NonBlankLine)

\* the Cleaning step dropped a blank line between two retained lines
C5_Witness ==
    /\ pc = "run"
    /\ "PDF_Loader" \in Range(executed)
    /\ Len(LinesOf(state.raw_content)) = 2
    /\ Len(Split(RawText(idx))) = 4

----------------------------------------------------------------------------
(* C6 *)

\* C6: with an empty API key or no uploaded file, no run starts and no model
\* call is made, and once the button is handled exactly one message is
\* shown: the missing-key error if the key is empty, the missing-files
\* warning otherwise.
C6_Rejected ==
    (api_key = "" \/ uploaded_files = <<>>) =>
       /\ calls = <<>>
       /\ pc \in {"idle", "rejected"}
       /\ state = NoState
       /\ pc = "idle" => ui = <<>>
       /\ pc = "rejected" =>
             ui = << Shown(IF api_key = "" THEN "missing_key_error"
                           ELSE "missing_files_warning", 0, <<>>, <<>>) >>

\* the button was pressed with a key and no file
C6_Witness ==
    /\ pc = "rejected"
    /\ api_key # ""
    /\ uploaded_files = <<>>

----------------------------------------------------------------------------
(* C7 *)

\* the per-document entries of ui, in order
DocEntries == LET IsDoc(e) == e.doc # 0 IN SelectSeq(ui, IsDoc)

\* C7: a failed model call yields a failure for its own document only and
\* the loop goes on: the per-document entries shown are those of documents
\* 1, 2, ... in order, one each; a batch ends only after every document had
\* its own run; each run starts from fresh inputs; and a result shows the
\* responses of that document's own two calls.
C7_FailureIsolated ==
    /\ pc \in {"loop", "run", "done"} =>
          /\ Len(DocEntries) = idx - 1
          /\ \A k \in 1..Len(DocEntries) : DocEntries[k].doc = k
    /\ pc = "done" =>
          /\ idx = N + 1
          /\ \A i \in 1..N : CallsOf(i) # <<>>
    /\ (pc = "run" /\ executed = <<>>) =>
          /\ state.file_name = uploaded_files[idx].name
          /\ state.raw_content = RawText(idx)
          /\ state.extracted_data = <<>>
          /\ state.quality_report = <<>>
          /\ CallsOf(idx) = <<>>
    /\ \A k \in 1..Len(DocEntries) :
          LET e == DocEntries[k] IN
          IF e.kind = "result"
          THEN /\ Len(CallsOf(k)) = 2
               /\ e.extracted = CallsOf(k)[1].response
               /\ e.report = CallsOf(k)[2].response
          ELSE /\ e.kind = "failure"
               /\ \E c \in Range(CallsOf(k)) : ~c.ok

\* a finished batch whose first document failed and whose second succeeded
C7_Witness ==
    /\ pc = "done"
    /\ N = 2
    /\ DocEntries[1].kind = "failure"
    /\ DocEntries[2].kind = "result"
    /\ DocEntries[2].extracted # <<>>

----------------------------------------------------------------------------
(* C8 *)

\* Loaded, Extracted, Verified
Phase ==
    IF "Monitor" \in Range(executed) THEN "Verified"
    ELSE IF "Filter" \in Range(executed) THEN "Extracted"
    ELSE "Loaded"

\* C8: the nodes a run has executed are always a prefix of PDF_Loader,
\* Filter, Monitor, the next node is the next of that chain (END after the
\* third), and a run whose two model calls returned is at END in phase
\* Verified whatever the responses were; a result is shown only by such a
\* run.
C8_LinearRun ==
    /\ pc = "run" =>
          /\ IsPrefix(executed, Chain)
          /\ node = IF Len(executed) < 3 THEN Chain[Len(executed) + 1]
                    ELSE "END"
          /\ (Len(CallsOf(idx)) = 2 /\ \A c \in Range(CallsOf(idx)) : c.ok)
                => (node = "END" /\ Phase = "Verified" /\ executed = Chain)
          /\ Phase = "Verified" <=> node = "END"
    /\ \A e \in Range(ui) :
          e.kind = "result" =>
             [k \in 1..Len(CallsOf(e.doc)) |-> CallsOf(e.doc)[k].step]
                = <<"Filter", "Monitor">>

\* a run at END although both responses were empty
C8_Witness ==
    /\ pc = "run"
    /\ node = "END"
    /\ state.extracted_data = <<>>
    /\ state.quality_report = <<>>

----------------------------------------------------------------------------
(* C9 *)

\* C9: for a document whose Monitor call failed (its Filter call having
\* returned), the handler shows exactly one entry, a failure, with neither
\* the extracted data nor a quality report.
C9_NoPartialResult ==
    \A c \in Range(calls) :
        (c.step = "Monitor" /\ ~c.ok) =>
           /\ CallsOf(c.doc)[1].ok
           /\ Len(ShownFor(c.doc)) = 1
           /\ ShownFor(c.doc)[1].kind = "failure"
           /\ ShownFor(c.doc)[1].extracted = <<>>
           /\ ShownFor(c.doc)[1].report = <<>>

\* a Monitor call failed after the Filter call had returned text
C9_Witness ==
    \E c \in Range(calls) :
        /\ c.step = "Monitor"
        /\ ~c.ok
        /\ CallsOf(c.doc)[1].response # <<>>

----------------------------------------------------------------------------
(* C10 *)

\* C10: for an unreadable file the run has the error message as
\* raw_content, the Filter message carries it, and the document ends as any
\* other: a failure only if one of its model calls failed, otherwise a
\* result after two calls.
C10_ErrorTextAsContent ==
    \A i \in 1..N :
        ~uploaded_files[i].readable =>
           /\ (pc = "run" /\ idx = i) => state.raw_content = ErrorText
           /\ \A c \in Range(CallsOf(i)) :
                 c.step = "Filter" =>
                    Contains(c.msg, <<"<F2>">> \o ErrorText \o <<"<F3>">>)
           /\ Finished(i) =>
                 IF \A c \in Range(CallsOf(i)) : c.ok
                 THEN ShownFor(i)[1].kind = "result" /\ Len(CallsOf(i)) = 2
                 ELSE ShownFor(i)[1].kind = "failure"

\* an unreadable file for which a result was shown
C10_Witness ==
    \E i \in 1..N :
        /\ ~uploaded_files[i].readable
        /\ Finished(i)
        /\ ShownFor(i)[1].kind = "result"

============================================================================
